---- MODULE Spec2Model ----
(***************************************************************************)
(* BCF Events Monitor: the snapshot store, the roster diff and the run     *)
(* loop of bcf_monitor/monitor.py (BCFMonitor), with the roster            *)
(* post-processing of bcf_monitor/parsers.py (EntryListParser).            *)
(*                                                                         *)
(* Text is a sequence of character codes ordered as Python orders code     *)
(* points: 0 is a whitespace character, 1..9 are upper-case letters,       *)
(* 11..19 the matching lower-case letters.  A calendar date is a day       *)
(* number (the ISO strings the code stores compare as their dates do).     *)
(* DateParser and the event blocks of the listing are modelled on their    *)
(* own: a date text is a sequence of tokens, a parsed date a year, month   *)
(* and day, an event block the sequence of its links.                      *)
(***************************************************************************)
EXTENDS Integers, Sequences, FiniteSets, TLC

\* ------------------------------------------------------------------------
\* Bounds
\* ------------------------------------------------------------------------
MaxRoster == 2      \* rows of a roster document / records of a roster argument
MaxDay == 1         \* the clock runs over the days 0..MaxDay
MaxBlocks == 2      \* event blocks of a listing document
MaxChunks == 2      \* writes in which the text of a snapshot reaches its file
MaxLinks == 2       \* links of an event block

\* ------------------------------------------------------------------------
\* Text
\* ------------------------------------------------------------------------
SP == 0

\* str.lower() on one character
LowerChar(c) == IF c >= 1 /\ c <= 9 THEN c + 10 ELSE c

\* str.lower()
Lower(s) == [i \in 1..Len(s) |-> LowerChar(s[i])]

\* k in s  (substring test on str)
Contains(s, k) ==
    \E off \in 0..(Len(s) - Len(k)) : \A i \in 1..Len(k) : s[off + i] = k[i]

\* a < b on str: lexicographic by code point
StrLess(a, b) ==
    \E i \in 1..(Len(a) + 1) :
        /\ i <= Len(b)
        /\ \A j \in 1..(i - 1) : a[j] = b[j]
        /\ (i = Len(a) + 1 \/ a[i] < b[i])

\* sorted(S) for a set of str
RECURSIVE sorted(_)
sorted(S) ==
    IF S = {} THEN <<>>
    ELSE LET m == CHOOSE x \in S : \A y \in S \ {x} : StrLess(x, y)
         IN  <<m>> \o sorted(S \ {m})

\* x in lst  (list membership)
InList(x, lst) == \E i \in 1..Len(lst) : lst[i] = x

\* str.strip()
RECURSIVE lstrip(_)
lstrip(s) == IF s # <<>> /\ Head(s) = SP THEN lstrip(Tail(s)) ELSE s

RECURSIVE rstrip(_)
rstrip(s) ==
    IF s # <<>> /\ s[Len(s)] = SP THEN rstrip(SubSeq(s, 1, Len(s) - 1)) ELSE s

strip(s) == rstrip(lstrip(s))

\* re.sub(r"\s+", " ", s): every run of whitespace becomes one space
RECURSIVE collapse(_)
collapse(s) ==
    IF Len(s) < 2 THEN s
    ELSE IF s[1] = SP /\ s[2] = SP THEN collapse(Tail(s))
    ELSE <<s[1]>> \o collapse(Tail(s))

\* normalize_name of _normalize_and_deduplicate
normalize_name(name) == collapse(strip(name))

\* ------------------------------------------------------------------------
\* Roster post-processing and diff
\* ------------------------------------------------------------------------
\* A participant record: the name and the metadata carried with it (rating;
\* uscf_id, section and byes travel with the record in the same way).
Participant(n, r) == [name |-> n, rating |-> r]

\* the loop "if p['name'] not in seen: seen.add(...); unique.append(p)"
RECURSIVE remove_duplicates(_, _)
remove_duplicates(participants, seen) ==
    IF participants = <<>> THEN <<>>
    ELSE LET p == Head(participants)
         IN  IF p.name \in seen
             THEN remove_duplicates(Tail(participants), seen)
             ELSE <<p>> \o remove_duplicates(Tail(participants), seen \cup {p.name})

\* faulty variant: duplicates are removed by the names as the table has them
normalize_and_deduplicate_as_given(participants) == remove_duplicates(participants, {})

\* EntryListParser._normalize_and_deduplicate
normalize_and_deduplicate(participants) ==
    remove_duplicates(
        [i \in 1..Len(participants) |->
            [participants[i] EXCEPT !.name = normalize_name(@)]],
        {})

\* the set of names of a participant list (old_names / new_names)
names_of(lst) == {lst[i].name : i \in 1..Len(lst)}

\* faulty variants of _diff_lists: records compared whole instead of by name;
\* the set difference forgotten; the list compared position by position
diff_lists_by_record(old_list, new_list) ==
    [added   |-> SelectSeq(new_list, LAMBDA p : ~InList(p, old_list)),
     removed |-> SelectSeq(old_list, LAMBDA p : ~InList(p, new_list))]

diff_lists_no_difference(old_list, new_list) ==
    LET added_names == sorted(names_of(new_list))
        removed_names == sorted(names_of(old_list) \ names_of(new_list))
    IN  [added   |-> SelectSeq(new_list, LAMBDA p : InList(p.name, added_names)),
         removed |-> SelectSeq(old_list, LAMBDA p : InList(p.name, removed_names))]

diff_lists_by_position(old_list, new_list) ==
    [added   |-> SelectSeq(new_list,
                    LAMBDA p : \E i \in 1..Len(new_list) :
                        /\ new_list[i] = p
                        /\ (i > Len(old_list) \/ old_list[i].name # p.name)),
     removed |-> SelectSeq(old_list,
                    LAMBDA p : \E i \in 1..Len(old_list) :
                        /\ old_list[i] = p
                        /\ (i > Len(new_list) \/ new_list[i].name # p.name))]

\* BCFMonitor._diff_lists (bcf_monitor.py diff_lists is the same text)
diff_lists(old_list, new_list) ==
    LET old_names == names_of(old_list)
        new_names == names_of(new_list)
        added_names == sorted(new_names \ old_names)
        removed_names == sorted(old_names \ new_names)
    IN  [added   |-> SelectSeq(new_list, LAMBDA p : InList(p.name, added_names)),
         removed |-> SelectSeq(old_list, LAMBDA p : InList(p.name, removed_names))]

\* all sequences over S of length at most n
SeqsUpTo(S, n) == UNION {[1..k -> S] : k \in 0..n}

\* those that hold no element twice
DistinctSeqsUpTo(S, n) ==
    {q \in SeqsUpTo(S, n) : \A i \in 1..Len(q) : \A j \in 1..Len(q) : i # j => q[i] # q[j]}

\* ------------------------------------------------------------------------
\* Date texts: DateParser of bcf_monitor/parsers.py
\* ------------------------------------------------------------------------
\* A date text is a sequence of tokens: a word (a maximal run of letters), a
\* number (a maximal run of digits, with its value v and its count of digits
\* w), one of the characters "," "-" "/", or a run of whitespace.  The words
\* are the names of two weekdays and two months (one also in lower case) and
\* the words "and" and "to"; none of them is part of another.
Word(s) == [t |-> "word", s |-> s, v |-> 0, w |-> 0]
Num(v, w) == [t |-> "num", s |-> "", v |-> v, w |-> w]
Pun(s) == [t |-> "pun", s |-> s, v |-> 0, w |-> 0]
Space == [t |-> "space", s |-> " ", v |-> 0, w |-> 0]

\* datetime.strptime(name, "%B").month, 0 when it raises ValueError
MonthNumber(s) ==
    IF s \in {"June", "june"} THEN 6 ELSE IF s = "July" THEN 7 ELSE 0

IsWeekdayName(s) == s \in {"Monday", "Friday"}

\* str.lower() on a word
LowerWord(s) == IF s = "June" THEN "june" ELSE s

\* the calendar of datetime.date
IsLeap(y) == (y % 4 = 0 /\ y % 100 # 0) \/ y % 400 = 0

DaysIn(m, y) ==
    IF m = 2 THEN (IF IsLeap(y) THEN 29 ELSE 28)
    ELSE IF m \in {4, 6, 9, 11} THEN 30 ELSE 31

ValidDate(y, m, d) ==
    /\ y >= 1 /\ y <= 9999
    /\ m >= 1 /\ m <= 12
    /\ d >= 1 /\ d <= DaysIn(m, y)

\* what a parser returns: None, a date, or the exception it raised
NoDate == [kind |-> "none", y |-> 0, m |-> 0, d |-> 0]
Date(y, m, d) == [kind |-> "date", y |-> y, m |-> m, d |-> d]
RaisedDate == [kind |-> "raise", y |-> 0, m |-> 0, d |-> 0]

\* datetime(y, m, d).date(), which raises ValueError outside the calendar
datetime(y, m, d) == IF ValidDate(y, m, d) THEN Date(y, m, d) ELSE RaisedDate

\* re.sub(r"\s+", " ", text.strip()) on tokens
RECURSIVE collapse_spaces(_)
collapse_spaces(toks) ==
    IF Len(toks) < 2 THEN toks
    ELSE IF toks[1].t = "space" /\ toks[2].t = "space" THEN collapse_spaces(Tail(toks))
    ELSE <<toks[1]>> \o collapse_spaces(Tail(toks))

RECURSIVE strip_spaces(_)
strip_spaces(toks) ==
    IF toks = <<>> THEN toks
    ELSE IF toks[1].t = "space" THEN strip_spaces(Tail(toks))
    ELSE IF toks[Len(toks)].t = "space" THEN strip_spaces(SubSeq(toks, 1, Len(toks) - 1))
    ELSE toks

cleaned_text(text) == collapse_spaces(strip_spaces(text))

\* the directives of strptime on one token: %d is 1..31 in one or two digits
\* (a lone 0 is none), %m is 1..12 likewise, %Y is four digits
MatchesDay(tok) ==
    /\ tok.t = "num"
    /\ (tok.w = 1 /\ tok.v >= 1) \/ (tok.w = 2 /\ tok.v >= 1 /\ tok.v <= 31)

MatchesMonth(tok) ==
    /\ tok.t = "num"
    /\ (tok.w = 1 /\ tok.v >= 1) \/ (tok.w = 2 /\ tok.v >= 1 /\ tok.v <= 12)

MatchesYear(tok) == tok.t = "num" /\ tok.w = 4

Is(tok, s) == tok.t \in {"pun", "space"} /\ tok.s = s

\* the date strptime builds, NoDate where it raises ValueError (no such day
\* in the month, year 0)
checked(y, m, d) == IF ValidDate(y, m, d) THEN Date(y, m, d) ELSE NoDate

\* datetime.strptime(cleaned, "%A, %B %d, %Y")
strptime_A_B_d_Y(c) ==
    IF /\ Len(c) = 9
       /\ c[1].t = "word" /\ IsWeekdayName(c[1].s)
       /\ Is(c[2], ",") /\ Is(c[3], " ")
       /\ c[4].t = "word" /\ MonthNumber(c[4].s) # 0
       /\ Is(c[5], " ") /\ MatchesDay(c[6])
       /\ Is(c[7], ",") /\ Is(c[8], " ") /\ MatchesYear(c[9])
    THEN checked(c[9].v, MonthNumber(c[4].s), c[6].v)
    ELSE NoDate

\* datetime.strptime(cleaned, "%B %d, %Y")
strptime_B_d_Y(c) ==
    IF /\ Len(c) = 6
       /\ c[1].t = "word" /\ MonthNumber(c[1].s) # 0
       /\ Is(c[2], " ") /\ MatchesDay(c[3])
       /\ Is(c[4], ",") /\ Is(c[5], " ") /\ MatchesYear(c[6])
    THEN checked(c[6].v, MonthNumber(c[1].s), c[3].v)
    ELSE NoDate

\* datetime.strptime(cleaned, "%Y-%m-%d")
strptime_Y_m_d(c) ==
    IF /\ Len(c) = 5
       /\ MatchesYear(c[1]) /\ Is(c[2], "-") /\ MatchesMonth(c[3])
       /\ Is(c[4], "-") /\ MatchesDay(c[5])
    THEN checked(c[1].v, c[3].v, c[5].v)
    ELSE NoDate

\* datetime.strptime(cleaned, "%m/%d/%Y")
strptime_m_d_Y(c) ==
    IF /\ Len(c) = 5
       /\ MatchesMonth(c[1]) /\ Is(c[2], "/") /\ MatchesDay(c[3])
       /\ Is(c[4], "/") /\ MatchesYear(c[5])
    THEN checked(c[5].v, c[1].v, c[3].v)
    ELSE NoDate

\* the loop over DATE_PATTERNS: the first pattern that parses
DATE_PATTERNS(c) ==
    IF strptime_A_B_d_Y(c) # NoDate THEN strptime_A_B_d_Y(c)
    ELSE IF strptime_B_d_Y(c) # NoDate THEN strptime_B_d_Y(c)
    ELSE IF strptime_Y_m_d(c) # NoDate THEN strptime_Y_m_d(c)
    ELSE strptime_m_d_Y(c)

\* the first digits of a run of digits, as \d{1,2} takes them
FirstTwo(tok) == IF tok.w <= 2 THEN tok.v ELSE tok.v \div (10 ^ (tok.w - 2))

\* re.search(r"(\d{4})[-/](\d{1,2})[-/](\d{1,2})", cleaned): the positions at
\* which it matches (the four digits end their run, the month is a whole run)
LooseMatches(c) ==
    {i \in 1..(Len(c) - 4) :
        /\ c[i].t = "num" /\ c[i].w >= 4
        /\ c[i + 1].t = "pun" /\ c[i + 1].s \in {"-", "/"}
        /\ c[i + 2].t = "num" /\ c[i + 2].w <= 2
        /\ c[i + 3].t = "pun" /\ c[i + 3].s \in {"-", "/"}
        /\ c[i + 4].t = "num"}

Least(S) == CHOOSE i \in S : \A j \in S : i <= j

\* DateParser.parse_date
parse_date(text) ==
    LET cleaned == cleaned_text(text)
        i == Least(LooseMatches(cleaned))
    IN  IF text = <<>> THEN NoDate
        ELSE IF DATE_PATTERNS(cleaned) # NoDate THEN DATE_PATTERNS(cleaned)
        ELSE IF LooseMatches(cleaned) # {}
        THEN datetime(cleaned[i].v % 10000, cleaned[i + 2].v, FirstTwo(cleaned[i + 4]))
        ELSE NoDate

\* what parse_multiple_dates returns: a list of dates, or the exception raised
DateList(dates) == [kind |-> "list", dates |-> dates]
RaisedList == [kind |-> "raise", dates |-> <<>>]

\* [single_date] if single_date else []
single_date(c) ==
    IF parse_date(c).kind = "raise" THEN RaisedList
    ELSE IF parse_date(c).kind = "date" THEN DateList(<<parse_date(c)>>)
    ELSE DateList(<<>>)

\* date comparison and current += timedelta(days=1)
DateLE(a, b) ==
    \/ a.y < b.y
    \/ a.y = b.y /\ a.m < b.m
    \/ a.y = b.y /\ a.m = b.m /\ a.d <= b.d

NextDay(a) ==
    IF a.d < DaysIn(a.m, a.y) THEN Date(a.y, a.m, a.d + 1)
    ELSE IF a.m < 12 THEN Date(a.y, a.m + 1, 1)
    ELSE Date(a.y + 1, 1, 1)

\* the while loop of lines 113-116
RECURSIVE days_through(_, _)
days_through(current, end_date) ==
    IF DateLE(current, end_date)
    THEN <<current>> \o days_through(NextDay(current), end_date)
    ELSE <<>>

\* sorted(dates)
RECURSIVE sorted_dates(_)
sorted_dates(dates) ==
    IF dates = <<>> THEN <<>>
    ELSE LET i == CHOOSE k \in 1..Len(dates) :
                      \A j \in 1..Len(dates) : DateLE(dates[k], dates[j])
         IN  <<dates[i]>> \o
             sorted_dates(SubSeq(dates, 1, i - 1) \o SubSeq(dates, i + 1, Len(dates)))

HasPun(c, s) == \E i \in 1..Len(c) : c[i].t = "pun" /\ c[i].s = s

HasWord(c, s) == \E i \in 1..Len(c) : c[i].t = "word" /\ LowerWord(c[i].s) = LowerWord(s)

\* 'and' in cleaned
HasAnd(c) == \E i \in 1..Len(c) : c[i].t = "word" /\ c[i].s = "and"

\* str(year) in text
HasYear(c, year) == \E i \in 1..Len(c) : c[i].t = "num" /\ c[i].w = 4 /\ c[i].v = year

\* re.sub(r"^[A-Za-z]+,\s*", "", text)
drop_weekday(c) ==
    IF Len(c) >= 2 /\ c[1].t = "word" /\ Is(c[2], ",")
    THEN strip_spaces(SubSeq(c, 3, Len(c)))
    ELSE c

\* re.findall(r'\b(\d{1,2})\b', part) over the parts, kept when
\* 1 <= day <= 31 and day != year: runs of one or two digits with no letter
\* next to them
day_numbers(c, year) ==
    LET is_day(i) ==
            /\ c[i].t = "num" /\ c[i].w <= 2
            /\ (i > 1 => c[i - 1].t # "word")
            /\ (i < Len(c) => c[i + 1].t # "word")
            /\ c[i].v >= 1 /\ c[i].v <= 31 /\ c[i].v # year
        idxs == SelectSeq([i \in 1..Len(c) |-> i], is_day)
    IN  [k \in 1..Len(idxs) |-> c[idxs[k]].v]

\* lines 131-135 and 149-153: a date per day number, sorted; datetime raises
\* on a day the month does not have
listed_days(c, year, month_num) ==
    LET days == day_numbers(c, year)
        dates == [k \in 1..Len(days) |-> datetime(year, month_num, days[k])]
    IN  IF \E k \in 1..Len(dates) : dates[k].kind = "raise" THEN RaisedList
        ELSE DateList(sorted_dates(dates))

\* lines 89-117: the range rule, on a text with a hyphen; "fall" when it does
\* not return
range_rule(c, month_name, year) ==
    LET hy == CHOOSE i \in 1..Len(c) : c[i].t = "pun" /\ c[i].s = "-"
        start_text == strip_spaces(SubSeq(c, 1, hy - 1))
        end_text == strip_spaces(SubSeq(c, hy + 1, Len(c)))
        with_year(t) == IF HasYear(t, year) THEN t
                        ELSE t \o <<Pun(","), Space, Num(year, 4)>>
        start_clean == with_year(drop_weekday(start_text))
        end_year == with_year(drop_weekday(end_text))
        end_clean == IF HasWord(end_year, month_name) THEN end_year
                     ELSE <<Word(month_name), Space>> \o end_year
        start_date == parse_date(start_clean)
        end_date == parse_date(end_clean)
    IN  IF Cardinality({i \in 1..Len(c) : c[i].t = "pun" /\ c[i].s = "-"}) # 1
        THEN [kind |-> "fall", dates |-> <<>>]
        ELSE IF start_date.kind = "raise" \/ end_date.kind = "raise" THEN RaisedList
        ELSE IF start_date.kind = "date" /\ end_date.kind = "date"
        THEN DateList(days_through(start_date, end_date))
        ELSE [kind |-> "fall", dates |-> <<>>]

\* DateParser.parse_multiple_dates
parse_multiple_dates(text) ==
    LET cleaned == cleaned_text(text)
        words == {i \in 1..Len(cleaned) : cleaned[i].t = "word"}
        first_word == Least(words)
        years == {i \in 1..Len(cleaned) :
                    i > first_word /\ cleaned[i].t = "num" /\ cleaned[i].w >= 4}
        year_tok == cleaned[Least(years)]
        year == year_tok.v \div (10 ^ (year_tok.w - 4))
        month_name == cleaned[first_word].s
        month_num == MonthNumber(month_name)
        ranged == range_rule(cleaned, month_name, year)
        listed == listed_days(cleaned, year, month_num)
    IN  IF text = <<>> THEN DateList(<<>>)
        ELSE IF words = {} \/ years = {} THEN single_date(cleaned)
        ELSE IF month_num = 0 THEN single_date(cleaned)
        ELSE IF HasPun(cleaned, "-")
        THEN (IF ranged.kind = "fall" THEN single_date(cleaned) ELSE ranged)
        ELSE IF HasAnd(cleaned) \/ HasPun(cleaned, ",")
        THEN (IF listed.kind = "list" /\ listed.dates = <<>>
              THEN single_date(cleaned) ELSE listed)
        ELSE single_date(cleaned)

\* ------------------------------------------------------------------------
\* Date texts given to the parsers
\* ------------------------------------------------------------------------
\* a number as it is written, without leading zeros
Written(v) == Num(v, IF v >= 10 THEN 2 ELSE 1)

\* "2025-06-02", "2025/13/45", ...
NumericText(y, sep, m, d) == <<Num(y, 4), Pun(sep), Written(m), Pun(sep), Written(d)>>

\* "6/2/2025"
SlashText(m, d, y) == <<Written(m), Pun("/"), Written(d), Pun("/"), Num(y, 4)>>

\* "June 2, 2025"
LongText(month, d, y) == <<Word(month), Space, Written(d), Pun(","), Space, Num(y, 4)>>

\* "Monday, June 2, 2025"
WeekdayText(wd, month, d, y) == <<Word(wd), Pun(","), Space>> \o LongText(month, d, y)

\* "Monday, June 2 - Friday, June 6, 2025"
WeekdayRangeText(d1, d2, y) ==
    <<Word("Monday"), Pun(","), Space, Word("June"), Space, Written(d1),
      Space, Pun("-"), Space>> \o WeekdayText("Friday", "June", d2, y)

\* "June 2 - June 6, 2025", "June 2 - 6, 2025" and "June 2-6, 2025"
MonthRangeText(d1, d2, y) ==
    <<Word("June"), Space, Written(d1), Space, Pun("-"), Space>> \o LongText("June", d2, y)

DayRangeText(d1, d2, y) ==
    <<Word("June"), Space, Written(d1), Space, Pun("-"), Space, Written(d2),
      Pun(","), Space, Num(y, 4)>>

TightRangeText(d1, d2, y) ==
    <<Word("June"), Space, Written(d1), Pun("-"), Written(d2), Pun(","), Space, Num(y, 4)>>

\* "June 3, 10, and 17, 2025" and "June 3, 10, 2025"
AndListText(d1, d2, d3, y) ==
    <<Word("June"), Space, Written(d1), Pun(","), Space, Written(d2), Pun(","), Space,
      Word("and"), Space, Written(d3), Pun(","), Space, Num(y, 4)>>

CommaListText(d1, d2, y) ==
    <<Word("June"), Space, Written(d1), Pun(","), Space, Written(d2), Pun(","), Space,
      Num(y, 4)>>

\* "June 3, 10 - 17, 2025" and "June 3, 10, and 17 - 18, 2025"
CommaHyphenText(d1, d2, d3, y) ==
    <<Word("June"), Space, Written(d1), Pun(","), Space, Written(d2), Space, Pun("-"),
      Space, Written(d3), Pun(","), Space, Num(y, 4)>>

AndHyphenText(d1, d2, d3, d4, y) ==
    <<Word("June"), Space, Written(d1), Pun(","), Space, Written(d2), Pun(","), Space,
      Word("and"), Space, Written(d3), Space, Pun("-"), Space, Written(d4), Pun(","),
      Space, Num(y, 4)>>

TextYears == {2025}
TextMonths == {0, 2, 6, 13}
TextDays == {0, 2, 6, 30, 31, 45}
RangeDays == {2, 6, 30}

DateTexts ==
  UNION {
    {NumericText(y, sep, m, d) : sep \in {"-", "/"}, m \in TextMonths, d \in TextDays}
    \cup {<<Word("to"), Space>> \o NumericText(y, "-", m, 2) \o <<Space, Space>> :
             m \in {6, 13}}
    \cup {SlashText(m, d, y) : m \in {6, 13}, d \in {2, 31}}
    \cup {LongText(month, d, y) : month \in {"June", "june", "July"}, d \in {2, 31}}
    \cup {WeekdayText(wd, "June", d, y) : wd \in {"Monday", "Friday"}, d \in {2, 31}}
    \cup {WeekdayRangeText(d1, d2, y) : d1 \in RangeDays, d2 \in RangeDays}
    \cup {MonthRangeText(d1, d2, y) : d1 \in RangeDays, d2 \in RangeDays}
    \cup {DayRangeText(d1, d2, y) : d1 \in RangeDays, d2 \in RangeDays}
    \cup {TightRangeText(2, 6, y)}
    \cup {AndListText(3, 10, d, y) : d \in {1, 17, 31}}
    \cup {CommaListText(d1, d2, y) : d1 \in {3, 30}, d2 \in {10, 31}}
    \cup {CommaHyphenText(3, 10, 17, y), AndHyphenText(3, 10, 17, 18, y)}
    \cup {<<>>, <<Word("to")>>, <<Space, Word("June"), Space, Space, Written(2), Pun(","),
                                  Space, Num(y, 4), Space>>}
  : y \in TextYears}

\* ------------------------------------------------------------------------
\* State
\* ------------------------------------------------------------------------
VARIABLES
    today,      \* the calendar date datetime.now() gives
    store,      \* data_dir: event id -> the content of <id>.json
    pc,         \* where BCFMonitor.run stands: idle, events, notify, cleanup
    events,     \* the event ids parse_events_page returned, in listing order
    idx,        \* position of the for loop over events
    reports,    \* the reports list of the run
    exit_code,  \* exit status of the last run (0, or 1 after sys.exit(1))
    config,     \* include/exclude keyword lists and days_before
    io,         \* log of the last _process_event call: its inputs and what it did
    call,       \* arguments and result of a direct call of a pure function
    files,      \* the files of one snapshot path: directory entries and inodes
    savers      \* the processes inside _save_snapshot for that path

vars == <<today, store, pc, events, idx, reports, exit_code, config, io, call,
          files, savers>>

EventIds == {1, 2}

\* ------------------------------------------------------------------------
\* Admission and expiry
\* ------------------------------------------------------------------------
\* the list comprehension of _setup_filtering_rules on the split keyword text
setup_keywords(raw) ==
    LET kept == SelectSeq(raw, LAMBDA k : strip(k) # <<>>)
    IN  [i \in 1..Len(kept) |-> Lower(strip(kept[i]))]

\* faulty variants of _match_rules: the name is not lower-cased; a hit of the
\* include list outweighs a hit of the exclude list
match_rules_case_sensitive(name, include_keywords, exclude_keywords) ==
    /\ (include_keywords # <<>> =>
            \E i \in 1..Len(include_keywords) : Contains(name, include_keywords[i]))
    /\ ~(\E i \in 1..Len(exclude_keywords) : Contains(name, exclude_keywords[i]))

match_rules_include_wins(name, include_keywords, exclude_keywords) ==
    LET lower_name == Lower(name)
        inc == \E i \in 1..Len(include_keywords) : Contains(lower_name, include_keywords[i])
        exc == \E i \in 1..Len(exclude_keywords) : Contains(lower_name, exclude_keywords[i])
    IN  IF include_keywords # <<>> THEN inc ELSE ~exc

\* BCFMonitor._match_rules
match_rules(name, include_keywords, exclude_keywords) ==
    LET lower_name == Lower(name)
    IN  IF include_keywords # <<>>
           /\ ~(\E i \in 1..Len(include_keywords) : Contains(lower_name, include_keywords[i]))
        THEN FALSE
        ELSE IF exclude_keywords # <<>>
                /\ (\E i \in 1..Len(exclude_keywords) : Contains(lower_name, exclude_keywords[i]))
        THEN FALSE
        ELSE TRUE

\* BCFMonitor._within_days, with the clock reading `now`
within_days(event_dates, days_before, now) ==
    IF event_dates = <<>> THEN FALSE
    ELSE \E i \in 1..Len(event_dates) :
            event_dates[i] >= now /\ event_dates[i] - now <= days_before

\* faulty variant of _expired: a snapshot without dates is kept
expired_keeps_undated(event_dates, now) ==
    /\ event_dates # <<>>
    /\ \A i \in 1..Len(event_dates) : ~(event_dates[i] >= now)

\* faulty variant of _expired: a date that is today counts as passed
expired_on_the_day(event_dates, now) ==
    IF event_dates = <<>> THEN TRUE
    ELSE \A i \in 1..Len(event_dates) : ~(event_dates[i] > now)

\* BCFMonitor._expired, with the clock reading `now`
expired(event_dates, now) ==
    IF event_dates = <<>> THEN TRUE
    ELSE \A i \in 1..Len(event_dates) : ~(event_dates[i] >= now)

\* ------------------------------------------------------------------------
\* Snapshot store
\* ------------------------------------------------------------------------
\* The content of <id>.json.  Of the snapshot dict the model keeps event_name,
\* event_dates and participants (count is Len(participants); the urls, the
\* details mapping and last_checked are written and never read back).
Absent == [kind |-> "absent", event_name |-> <<>>, event_dates |-> <<>>,
           participants |-> <<>>]

Snapshot(name, dates, participants) ==
    [kind |-> "snapshot", event_name |-> name, event_dates |-> dates,
     participants |-> participants]

\* a file <id>.json whose content json.load cannot parse
Corrupt == [kind |-> "corrupt", event_name |-> <<>>, event_dates |-> <<>>,
            participants |-> <<>>]

\* load_snapshot of the standalone script: the error json.load raises on
\* unparseable content is not caught (here the value Raised)
Raised == [kind |-> "raised", event_name |-> <<>>, event_dates |-> <<>>,
           participants |-> <<>>]

script_load_snapshot(st, id) == IF st[id].kind = "corrupt" THEN Raised ELSE st[id]

\* BCFMonitor._load_snapshot: None (here Absent) when the file does not exist
\* or json.load raises on its content
load_snapshot(st, id) == IF st[id].kind = "snapshot" THEN st[id] ELSE Absent

\* faulty variant of _save_snapshot: the new roster is merged into the old
save_snapshot_merge(st, id, data) ==
    [st EXCEPT ![id] =
        [data EXCEPT !.participants =
            st[id].participants \o
            SelectSeq(data.participants,
                      LAMBDA p : p.name \notin names_of(st[id].participants))]]

\* faulty variant of _save_snapshot: the file is left as it was
save_snapshot_not_replaced(st, id, data) == st

\* BCFMonitor._save_snapshot: write <id>.json.tmp, then os.replace onto <id>.json
save_snapshot(st, id, data) == [st EXCEPT ![id] = data]

\* BCFMonitor._cleanup_expired: every <id>.json that loads and is expired is removed
cleanup_expired(st, now) ==
    [id \in DOMAIN st |->
        IF load_snapshot(st, id).kind = "snapshot"
           /\ expired(load_snapshot(st, id).event_dates, now)
        THEN Absent ELSE st[id]]

\* ------------------------------------------------------------------------
\* Event names and documents
\* ------------------------------------------------------------------------
ScholasticOpen == <<3, 13, 0, 2>>
SpringOpen == <<4, 0, 2>>
EventsTitle == <<5>>

\* ["upcoming events", "events", "tournaments"]
GenericTitles == {<<15>>, <<16>>}

\* an event dict of parse_events_page; event_detail_url is TRUE when one was found
Event(id, name, dates, url) ==
    [event_id |-> id, name |-> name, dates |-> dates, event_detail_url |-> url]

\* the outcome of http_client.get + parse_event_details on the detail page:
\* status "fail" when the fetch raised; event_name <<>> when the page has none;
\* dates is what parse_multiple_dates gives on the page's date field
Detail(status, name, dates) == [status |-> status, event_name |-> name, dates |-> dates]

\* the outcome of http_client.get on the entries page and of the table and
\* title extraction of parse_entry_list: title <<>> when there is none
Roster(status, title, rows) == [status |-> status, title |-> title, rows |-> rows]

\* EntryListParser._parse_members_table: a row whose name cell is empty gives
\* no record
parse_members_table(rows) ==
    SelectSeq([i \in 1..Len(rows) |-> [rows[i] EXCEPT !.name = strip(@)]],
              LAMBDA p : p.name # <<>>)

\* EntryListParser.parse_entry_list
parse_entry_list(doc) ==
    [participants |-> normalize_and_deduplicate(parse_members_table(doc.rows)),
     event_name |-> doc.title]

NoReport == [name |-> <<>>, dates |-> <<>>, entry_url |-> 0, count |-> 0,
             added |-> <<>>, removed |-> <<>>]

NoIO == [kind |-> "none", event_id |-> 0, listing_name |-> <<>>, name |-> <<>>,
         dates |-> <<>>, now |-> 0, detail |-> "none", roster_requested |-> FALSE,
         outcome |-> "none", participants |-> <<>>, prior |-> Absent, swept |-> {},
         blocks |-> <<>>]

\* ------------------------------------------------------------------------
\* BCFMonitor._process_event
\* ------------------------------------------------------------------------
\* lines 257-277: the detail page may replace the name and supply missing dates
apply_details(event, detail) ==
    IF event.event_detail_url /\ detail.status = "ok"
    THEN [event EXCEPT
            !.name = IF detail.event_name # <<>>
                        /\ Lower(detail.event_name) \notin GenericTitles
                     THEN detail.event_name ELSE @,
            !.dates = IF @ = <<>> /\ detail.dates # <<>> THEN detail.dates ELSE @]
    ELSE event

\* faulty variant of lines 284-287: the roster page title is not used
apply_title_ignored(event, entry_event_name) == event

\* lines 284-287: the roster page title may replace the name
apply_title(event, entry_event_name) ==
    IF entry_event_name # <<>> /\ Lower(entry_event_name) \notin GenericTitles
    THEN [event EXCEPT !.name = entry_event_name]
    ELSE event

\* what one call returns and does: the store after it, the report (or none),
\* and the log entry of the call (how the detail fetch went is entered by
\* detail_logged)
Result(st, reported, report, listed, event, now, requested, outcome, participants, prior) ==
    [store |-> st, reported |-> reported, report |-> report,
     io |-> [kind |-> "event", event_id |-> event.event_id,
             listing_name |-> listed.name, name |-> event.name,
             dates |-> event.dates, now |-> now, detail |-> "none",
             roster_requested |-> requested,
             outcome |-> outcome, participants |-> participants, prior |-> prior,
             swept |-> {}, blocks |-> <<>>]]

\* BCFMonitor._process_event on the listing's event dict `listed`, with the
\* outcomes of its two fetches and of _save_snapshot (save: "ok"; "mkdir_failed"
\* when os.makedirs raises, which nothing on the way up to run catches;
\* "write_failed" when the write or the replace raises, which is logged), the
\* store st, the clock reading now and the configuration cfg
process_event(listed, detail, roster, save, st, now, cfg) ==
    LET e1 == apply_details(listed, detail)
        parsed == parse_entry_list(roster)
        event == apply_title(e1, parsed.event_name)
        previous == load_snapshot(st, event.event_id)
        d == diff_lists(previous.participants, parsed.participants)
        report == [name |-> event.name, dates |-> event.dates,
                   entry_url |-> event.event_id, count |-> Len(parsed.participants),
                   added |-> d.added, removed |-> d.removed]
    IN  IF roster.status = "fail"
        THEN Result(st, FALSE, NoReport, listed, e1, now, TRUE, "fetch_failed", <<>>, Absent)
        ELSE IF ~match_rules(event.name, cfg.include_keywords, cfg.exclude_keywords)
        THEN Result(st, FALSE, NoReport, listed, event, now, TRUE, "filtered",
                    parsed.participants, Absent)
        ELSE IF ~within_days(event.dates, cfg.days_before, now)
        THEN Result(st, FALSE, NoReport, listed, event, now, TRUE, "window",
                    parsed.participants, Absent)
        ELSE IF parsed.participants = <<>>
        THEN Result(st, FALSE, NoReport, listed, event, now, TRUE, "empty", <<>>, Absent)
        ELSE IF save = "mkdir_failed"
        THEN Result(st, FALSE, NoReport, listed, event, now, TRUE, "save_raised",
                    parsed.participants, previous)
        ELSE IF save = "write_failed"
        THEN Result(st, TRUE, report, listed, event, now, TRUE, "save_failed",
                    parsed.participants, previous)
        ELSE Result(save_snapshot(st, event.event_id,
                                  Snapshot(event.name, event.dates, parsed.participants)),
                    TRUE, report,
                    listed, event, now, TRUE, "reconciled", parsed.participants, previous)

\* one turn of the per-event loop of the standalone script's main: an empty
\* roster is reconciled like any other, and neither load_snapshot nor
\* save_snapshot catches what it raises
script_process_event(listed, detail, roster, save, st, now, cfg) ==
    LET e1 == apply_details(listed, detail)
        parsed == parse_entry_list(roster)
        event == apply_title(e1, parsed.event_name)
        previous == script_load_snapshot(st, event.event_id)
        d == diff_lists(previous.participants, parsed.participants)
        report == [name |-> event.name, dates |-> event.dates,
                   entry_url |-> event.event_id, count |-> Len(parsed.participants),
                   added |-> d.added, removed |-> d.removed]
    IN  IF roster.status = "fail"
        THEN Result(st, FALSE, NoReport, listed, e1, now, TRUE, "fetch_failed", <<>>, Absent)
        ELSE IF ~match_rules(event.name, cfg.include_keywords, cfg.exclude_keywords)
        THEN Result(st, FALSE, NoReport, listed, event, now, TRUE, "filtered",
                    parsed.participants, Absent)
        ELSE IF ~within_days(event.dates, cfg.days_before, now)
        THEN Result(st, FALSE, NoReport, listed, event, now, TRUE, "window",
                    parsed.participants, Absent)
        ELSE IF previous.kind = "raised"
        THEN Result(st, FALSE, NoReport, listed, event, now, TRUE, "load_raised",
                    parsed.participants, previous)
        ELSE IF save # "ok"
        THEN Result(st, FALSE, NoReport, listed, event, now, TRUE, "save_raised",
                    parsed.participants, previous)
        ELSE Result(save_snapshot(st, event.event_id,
                                  Snapshot(event.name, event.dates, parsed.participants)),
                    TRUE, report,
                    listed, event, now, TRUE, "reconciled", parsed.participants, previous)

\* lines 258-277 in the log: "none" without a detail link, else how the fetch
\* of the detail page ended
detail_logged(r, listed, detail) ==
    [r EXCEPT !.io.detail = IF listed.event_detail_url THEN detail.status ELSE "none"]

\* the dict-keyed deduplication at the end of parse_events_page, on the ids of
\* the blocks in document order: the first block of an id wins
RECURSIVE unique_by_id(_, _)
unique_by_id(ids, seen) ==
    IF ids = <<>> THEN <<>>
    ELSE IF Head(ids) \in seen THEN unique_by_id(Tail(ids), seen)
    ELSE <<Head(ids)>> \o unique_by_id(Tail(ids), seen \cup {Head(ids)})

\* faulty variant: every block gives an event
parse_events_page_every_block(blocks) == blocks

parse_events_page(blocks) == unique_by_id(blocks, {})

\* ------------------------------------------------------------------------
\* Inputs of the run loop
\* ------------------------------------------------------------------------
\* the configuration as __init__ keeps it
Config(include, exclude, days_before) ==
    [include_keywords |-> setup_keywords(include),
     exclude_keywords |-> setup_keywords(exclude),
     days_before |-> days_before]

\* exclude = " S" (matches "Scholastic Open" once stripped and lowered), a
\* window of one day
RunConfigs == {Config(<<>>, <<<<0, 3>>>>, 1)}

RunDates == {<<>>} \cup {<<d>> : d \in 0..(MaxDay + 1)}

\* The listing's blocks are kept as their ids; what a block says of its event
\* (name, dates, detail link) is read when the loop reaches the event, which
\* is the first time the run uses it.
RunEvents(id) ==
    {Event(id, n, ds, FALSE) : n \in {ScholasticOpen, SpringOpen}, ds \in RunDates}

RunDetails == {Detail("fail", <<>>, <<>>)}

\* table rows as _parse_members_table gives them: cells stripped, names not
\* yet normalized ("C  A" has a double space), no row listed twice.  The
\* entries page of event 2 lists nobody or the one participant A.
RunRows(id) ==
    IF id = 1
    THEN {Participant(<<1>>, 0), Participant(<<2>>, 0), Participant(<<3, 0, 0, 1>>, 0)}
    ELSE {Participant(<<1>>, 0)}

RunRosters(id) ==
    {Roster("fail", <<>>, <<>>)} \cup
    {Roster("ok", <<>>, rows) : rows \in DistinctSeqsUpTo(RunRows(id), MaxRoster)}

\* data_dir before the first run: empty, or holding a snapshot without
\* event_dates (which the sweep reads with snapshot.get("event_dates", []))
InitialStores ==
    {[id \in EventIds |-> Absent],
     [id \in EventIds |->
        IF id = 2 THEN Snapshot(SpringOpen, <<>>, <<Participant(<<1>>, 0)>>) ELSE Absent]}

\* how _save_snapshot can end
SaveOutcomes == {"ok", "mkdir_failed", "write_failed"}

\* how the notification step can end: nothing to send or sending disabled,
\* sent, or send_notification caught an error and returned False
NotifyOutcomes == {"skipped", "sent", "failed"}

\* the runs of Spec have a data_dir that can be written and no mail set up
RunSaves == {"ok"}
RunNotifies == {"skipped"}

NoCall == [op |-> "none", old_list |-> <<>>, new_list |-> <<>>,
           added |-> <<>>, removed |-> <<>>]

\* the run loop's actions take _save_snapshot as one step: no file is open
\* and no process is inside it
NoFiles == [names |-> <<>>, inodes |-> <<>>]
NoSavers == [mode |-> "none", committed |-> Absent, last |-> 0, proc |-> <<>>]

\* faulty variant: what the entries fetch raises is not caught in the call
Raises_with_fetch == {"save_raised", "load_raised", "fetch_failed"}

\* the outcomes of a call that raised
Raises == {"save_raised", "load_raised"}

\* what the run loop's log keeps of a call: the event, the outcome, and for a
\* reconciled event (saved or not) the roster it loaded and the roster it
\* observed
Brief(entry) ==
    [NoIO EXCEPT !.kind = entry.kind, !.event_id = entry.event_id,
                 !.outcome = entry.outcome, !.detail = entry.detail,
                 !.roster_requested = entry.roster_requested,
                 !.participants =
                     IF entry.outcome \in {"reconciled", "save_failed"}
                     THEN entry.participants ELSE <<>>,
                 !.prior = IF entry.outcome \in {"reconciled", "save_failed"}
                           THEN entry.prior ELSE Absent]

\* ------------------------------------------------------------------------
\* The run loop: BCFMonitor.run
\* ------------------------------------------------------------------------
Init ==
    /\ today = 0
    /\ store \in InitialStores
    /\ pc = "idle"
    /\ events = <<>>
    /\ idx = 0
    /\ reports = <<>>
    /\ exit_code = 0
    /\ config \in RunConfigs
    /\ io = NoIO
    /\ call = NoCall
    /\ files = NoFiles
    /\ savers = NoSavers

\* midnight passes
Tick ==
    /\ today < MaxDay
    /\ today' = today + 1
    /\ UNCHANGED <<store, pc, events, idx, reports, exit_code, config, io, call, files, savers>>

\* faulty variant: the sweep is made also when the listing fetch raised
ListingFails_sweeps ==
    /\ pc = "idle"
    /\ exit_code' = 1
    /\ store' = cleanup_expired(store, today)
    /\ events' = <<>>
    /\ idx' = 0
    /\ reports' = <<>>
    /\ io' = [NoIO EXCEPT !.kind = "listing", !.outcome = "fetch_failed"]
    /\ UNCHANGED <<today, pc, config, call, files, savers>>

\* lines 406-409 and 441-443: the listing fetch raises, the run exits with 1
ListingFails ==
    /\ pc = "idle"
    /\ exit_code' = 1
    /\ events' = <<>>
    /\ idx' = 0
    /\ reports' = <<>>
    /\ io' = [NoIO EXCEPT !.kind = "listing", !.outcome = "fetch_failed"]
    /\ UNCHANGED <<today, store, pc, config, call, files, savers>>

\* lines 409-410 and 441-443: parse_events_page raises: find_event_dates hands
\* the date text of an event block to parse_multiple_dates (parsers.py lines
\* 226-241), which raises on `text`; the except of run exits with 1
ListingParseRaises(text) ==
    /\ pc = "idle"
    /\ parse_multiple_dates(text).kind = "raise"
    /\ exit_code' = 1
    /\ events' = <<>>
    /\ idx' = 0
    /\ reports' = <<>>
    /\ io' = [NoIO EXCEPT !.kind = "listing", !.outcome = "parse_raised"]
    /\ UNCHANGED <<today, store, pc, config, call, files, savers>>

\* faulty variant of lines 412-415: with no events run returns at once
after_listing_returns(evs) == IF evs = <<>> THEN "idle" ELSE "events"

\* lines 412-418: with no events run goes straight to the sweep
after_listing(evs) == IF evs = <<>> THEN "cleanup" ELSE "events"

\* lines 408-418: the listing is fetched and parsed (the log keeps the ids of
\* its blocks); no events: straight to the sweep
StartRun(blocks) ==
    /\ pc = "idle"
    /\ exit_code' = 0
    /\ events' = parse_events_page(blocks)
    /\ idx' = 1
    /\ reports' = <<>>
    /\ pc' = after_listing(events')
    /\ io' = [NoIO EXCEPT !.kind = "listing", !.outcome = "fetched", !.blocks = blocks]
    /\ UNCHANGED <<today, store, config, call, files, savers>>

\* lines 419-422: one turn of the loop over events; lines 441-443 when the
\* call raised: the run exits with 1
ProcessEvent(listed, detail, roster, save) ==
    /\ pc = "events"
    /\ idx <= Len(events)
    /\ listed.event_id = events[idx]
    /\ LET r == detail_logged(process_event(listed, detail, roster, save, store,
                                             today, config), listed, detail)
       IN  /\ store' = r.store
           /\ io' = Brief(r.io)
           /\ IF r.io.outcome \in Raises
              THEN /\ exit_code' = 1
                   /\ pc' = "idle"
                   /\ events' = <<>>
                   /\ idx' = 0
                   /\ reports' = <<>>
              ELSE /\ reports' = IF r.reported THEN Append(reports, r.report) ELSE reports
                   /\ idx' = idx + 1
                   /\ pc' = IF idx' > Len(events) THEN "notify" ELSE "events"
                   /\ UNCHANGED <<events, exit_code>>
    /\ UNCHANGED <<today, config, call, files, savers>>

\* lines 424-436: the reports are printed and handed to the notifier
Notify(outcome) ==
    /\ pc = "notify"
    /\ pc' = "cleanup"
    /\ io' = [NoIO EXCEPT !.kind = "notify", !.outcome = outcome]
    /\ UNCHANGED <<today, store, events, idx, reports, exit_code, config, call, files, savers>>

\* lines 414 and 439: the sweep of expired snapshots (the log keeps its clock
\* reading, the files it reports removed and how the cycle went: no events
\* discovered, no reports, or how the notification ended), then run returns
\* and its locals are gone
Cleanup ==
    /\ pc = "cleanup"
    /\ store' = cleanup_expired(store, today)
    /\ pc' = "idle"
    /\ events' = <<>>
    /\ idx' = 0
    /\ reports' = <<>>
    /\ io' = [NoIO EXCEPT !.kind = "sweep", !.now = today,
                          !.outcome = IF events = <<>> THEN "no_events"
                                      ELSE IF reports = <<>> THEN "no_reports"
                                      ELSE io.outcome,
                          !.swept = {id \in EventIds : store'[id] # store[id]}]
    /\ UNCHANGED <<today, exit_code, config, call, files, savers>>

Next ==
    \/ Tick
    \/ ListingFails
    \/ \E blocks \in SeqsUpTo(EventIds, MaxBlocks) : StartRun(blocks)
    \/ \E id \in EventIds : \E listed \in RunEvents(id) :
          \E detail \in RunDetails : \E roster \in RunRosters(id) :
              \E save \in RunSaves : ProcessEvent(listed, detail, roster, save)
    \/ \E outcome \in RunNotifies : Notify(outcome)
    \/ Cleanup

Spec == Init /\ [][Next]_vars

\* ------------------------------------------------------------------------
\* The run loop with failing fetches, a failing disk and a failing mail server
\* ------------------------------------------------------------------------
\* events with and without a detail link, undated or dated today, tomorrow or
\* yesterday
FaultEvents(id) ==
    {Event(id, SpringOpen, ds, u) : ds \in {<<>>} \cup {<<d>> : d \in 0..MaxDay},
                                    u \in BOOLEAN}

\* the detail fetch raises, or the page gives an excluded name, or nothing
FaultDetails ==
    {Detail("fail", <<>>, <<>>), Detail("ok", ScholasticOpen, <<>>),
     Detail("ok", <<>>, <<>>)}

FaultRosters ==
    {Roster("fail", <<>>, <<>>), Roster("ok", <<>>, <<>>),
     Roster("ok", <<>>, <<Participant(<<1>>, 0)>>)}

\* data_dir before the first run: as for Spec, or with a file of event 1 that
\* does not parse
FaultStores ==
    InitialStores \cup {[id \in EventIds |-> IF id = 1 THEN Corrupt ELSE Absent]}

InitFaults ==
    /\ today = 0
    /\ store \in FaultStores
    /\ pc = "idle"
    /\ events = <<>>
    /\ idx = 0
    /\ reports = <<>>
    /\ exit_code = 0
    /\ config \in RunConfigs
    /\ io = NoIO
    /\ call = NoCall
    /\ files = NoFiles
    /\ savers = NoSavers

NextFaults ==
    \/ Tick
    \/ ListingFails
    \/ \E text \in DateTexts : ListingParseRaises(text)
    \/ \E blocks \in SeqsUpTo(EventIds, MaxBlocks) : StartRun(blocks)
    \/ \E id \in EventIds : \E listed \in FaultEvents(id) :
          \E detail \in FaultDetails : \E roster \in FaultRosters :
              \E save \in SaveOutcomes : ProcessEvent(listed, detail, roster, save)
    \/ \E outcome \in NotifyOutcomes : Notify(outcome)
    \/ Cleanup

SpecFaults == InitFaults /\ [][NextFaults]_vars

\* ------------------------------------------------------------------------
\* The roster functions called on their own
\* ------------------------------------------------------------------------
\* rows with the names "A", "B", "A B" and "A  B" and two ratings for "A"
DiffRows == {Participant(<<1>>, 0), Participant(<<1>>, 1), Participant(<<2>>, 0),
             Participant(<<1, 0, 2>>, 0), Participant(<<1, 0, 0, 2>>, 0)}

InitDiff ==
    /\ today = 0
    /\ store = [id \in EventIds |-> Absent]
    /\ pc = "idle"
    /\ events = <<>>
    /\ idx = 0
    /\ reports = <<>>
    /\ exit_code = 0
    /\ config \in RunConfigs
    /\ io = NoIO
    /\ call \in {[NoCall EXCEPT !.op = "args", !.old_list = o, !.new_list = n] :
                    o \in SeqsUpTo(DiffRows, MaxRoster),
                    n \in SeqsUpTo(DiffRows, MaxRoster)}
    /\ files = NoFiles
    /\ savers = NoSavers

\* both lists go through the extractor's post-processing, as the rows of two
\* roster documents do
CallNormalize ==
    /\ call.op = "args"
    /\ call' = [call EXCEPT !.op = "rosters",
                            !.old_list = normalize_and_deduplicate(@),
                            !.new_list = normalize_and_deduplicate(@)]
    /\ UNCHANGED <<today, store, pc, events, idx, reports, exit_code, config, io, files, savers>>

\* _diff_lists(old_list, new_list), on extracted rosters ("diff") or on the
\* lists as given ("diff_raw")
CallDiff ==
    /\ call.op \in {"args", "rosters"}
    /\ LET d == diff_lists(call.old_list, call.new_list)
       IN  call' = [call EXCEPT !.op = IF call.op = "args" THEN "diff_raw" ELSE "diff",
                                !.added = d.added, !.removed = d.removed]
    /\ UNCHANGED <<today, store, pc, events, idx, reports, exit_code, config, io, files, savers>>

NextDiff == CallNormalize \/ CallDiff

SpecDiff == InitDiff /\ [][NextDiff]_vars

\* ------------------------------------------------------------------------
\* The roster extractor called on its own
\* ------------------------------------------------------------------------
\* rows of a members table: the names "A", "B", "A B", "A  B", a second
\* rating for "A", and a row whose name cell is empty
TableRows == DiffRows \cup {Participant(<<>>, 0)}

NoRosterCall == [op |-> "document", rows |-> <<>>, first |-> <<>>, second |-> <<>>]

InitRoster ==
    /\ today = 0
    /\ store = [id \in EventIds |-> Absent]
    /\ pc = "idle"
    /\ events = <<>>
    /\ idx = 0
    /\ reports = <<>>
    /\ exit_code = 0
    /\ config \in RunConfigs
    /\ io = NoIO
    /\ call \in {[NoRosterCall EXCEPT !.rows = rows] : rows \in SeqsUpTo(TableRows, MaxRoster)}
    /\ files = NoFiles
    /\ savers = NoSavers

\* parse_entry_list(html) on a roster document
CallParseEntryList ==
    /\ call.op = "document"
    /\ call' = [call EXCEPT !.op = "parsed",
                            !.first = parse_entry_list(Roster("ok", <<>>, call.rows)).participants]
    /\ UNCHANGED <<today, store, pc, events, idx, reports, exit_code, config, io, files, savers>>

\* parse_entry_list(html) once more on the same document
CallParseEntryListAgain ==
    /\ call.op = "parsed"
    /\ call' = [call EXCEPT !.op = "parsed_twice",
                            !.second = parse_entry_list(Roster("ok", <<>>, call.rows)).participants]
    /\ UNCHANGED <<today, store, pc, events, idx, reports, exit_code, config, io, files, savers>>

NextRoster == CallParseEntryList \/ CallParseEntryListAgain

SpecRoster == InitRoster /\ [][NextRoster]_vars

\* ------------------------------------------------------------------------
\* One call of _process_event, over every shape of its inputs
\* ------------------------------------------------------------------------
\* include/exclude texts: none; exclude " Ss"; include "o" with exclude "s"
\* (both hit "Scholastic Open"); include "s" and a blank entry; a window of
\* zero days
EventConfigs ==
    {Config(<<>>, <<>>, 1),
     Config(<<>>, <<<<0, 3, 13>>>>, 1),
     Config(<<<<12>>>>, <<<<13>>>>, 1),
     Config(<<<<13>>, <<0>>>>, <<>>, 1),
     Config(<<>>, <<>>, 0)}

EventDates ==
    {<<>>} \cup {<<d>> : d \in 0..(MaxDay + 2)} \cup {<<d, d + 2>> : d \in 0..MaxDay}

ListedEvents ==
    {Event(1, n, ds, u) : n \in {ScholasticOpen, SpringOpen}, ds \in EventDates,
                          u \in BOOLEAN}

EventDetails ==
    {Detail("fail", <<>>, <<>>)} \cup
    {Detail("ok", n, ds) : n \in {<<>>, EventsTitle, ScholasticOpen, SpringOpen},
                           ds \in {<<>>, <<1>>}}

EventRosters ==
    {Roster("fail", <<>>, <<>>)} \cup
    {Roster("ok", t, rows) :
        t \in {<<>>, EventsTitle, ScholasticOpen, SpringOpen},
        rows \in {<<>>, <<Participant(<<1>>, 0)>>,
                  <<Participant(<<2>>, 0), Participant(<<1>>, 1)>>}}

EventStores ==
    {[id \in EventIds |-> Absent],
     [id \in EventIds |->
        IF id = 1 THEN Snapshot(SpringOpen, <<1>>, <<Participant(<<1>>, 0)>>)
        ELSE Absent]}

\* a run on any day has fetched a listing holding the one event 1
InitEvent ==
    /\ today \in 0..MaxDay
    /\ store \in EventStores
    /\ pc = "events"
    /\ events = <<1>>
    /\ idx = 1
    /\ reports = <<>>
    /\ exit_code = 0
    /\ config \in EventConfigs
    /\ io = NoIO
    /\ call = NoCall
    /\ files = NoFiles
    /\ savers = NoSavers

\* the turn of the loop, with the whole log entry kept
ProcessEventLogged(listed, detail, roster, save) ==
    /\ pc = "events"
    /\ idx <= Len(events)
    /\ listed.event_id = events[idx]
    /\ LET r == detail_logged(process_event(listed, detail, roster, save, store,
                                             today, config), listed, detail)
       IN  /\ store' = r.store
           /\ io' = r.io
           /\ IF r.io.outcome \in Raises
              THEN /\ exit_code' = 1
                   /\ pc' = "idle"
                   /\ events' = <<>>
                   /\ idx' = 0
                   /\ reports' = <<>>
              ELSE /\ reports' = IF r.reported THEN Append(reports, r.report) ELSE reports
                   /\ idx' = idx + 1
                   /\ pc' = IF idx' > Len(events) THEN "notify" ELSE "events"
                   /\ UNCHANGED <<events, exit_code>>
    /\ UNCHANGED <<today, config, call, files, savers>>

NextEvent ==
    \E listed \in ListedEvents : \E detail \in EventDetails : \E roster \in EventRosters :
        \E save \in SaveOutcomes : ProcessEventLogged(listed, detail, roster, save)

SpecEvent == InitEvent /\ [][NextEvent]_vars

\* ------------------------------------------------------------------------
\* One turn of the per-event loop of the standalone script
\* ------------------------------------------------------------------------
\* data_dir: as for SpecEvent, or with a file of event 1 that does not parse
ScriptStores ==
    EventStores \cup {[id \in EventIds |-> IF id = 1 THEN Corrupt ELSE Absent]}

InitScript ==
    /\ today \in 0..MaxDay
    /\ store \in ScriptStores
    /\ pc = "events"
    /\ events = <<1>>
    /\ idx = 1
    /\ reports = <<>>
    /\ exit_code = 0
    /\ config \in EventConfigs
    /\ io = NoIO
    /\ call = NoCall
    /\ files = NoFiles
    /\ savers = NoSavers

\* main, lines 882-964: one turn of the loop; nothing in main catches what
\* load_snapshot or save_snapshot raises, so the interpreter ends the process
\* with status 1
ScriptProcessEvent(listed, detail, roster, save) ==
    /\ pc = "events"
    /\ idx <= Len(events)
    /\ listed.event_id = events[idx]
    /\ LET r == detail_logged(script_process_event(listed, detail, roster, save, store,
                                                    today, config), listed, detail)
       IN  /\ store' = r.store
           /\ io' = r.io
           /\ IF r.io.outcome \in Raises
              THEN /\ exit_code' = 1
                   /\ pc' = "idle"
                   /\ events' = <<>>
                   /\ idx' = 0
                   /\ reports' = <<>>
              ELSE /\ reports' = IF r.reported THEN Append(reports, r.report) ELSE reports
                   /\ idx' = idx + 1
                   /\ pc' = IF idx' > Len(events) THEN "notify" ELSE "events"
                   /\ UNCHANGED <<events, exit_code>>
    /\ UNCHANGED <<today, config, call, files, savers>>

NextScript ==
    \E listed \in ListedEvents : \E detail \in EventDetails : \E roster \in EventRosters :
        \E save \in SaveOutcomes : ScriptProcessEvent(listed, detail, roster, save)

SpecScript == InitScript /\ [][NextScript]_vars

\* ------------------------------------------------------------------------
\* The package and the standalone script on the same event
\* ------------------------------------------------------------------------
\* no filter, or exclude " Ss"
PairConfigs == {Config(<<>>, <<>>, 1), Config(<<>>, <<<<0, 3, 13>>>>, 1)}

\* event 1 as the listing gives it: undated or dated today
PairEvents ==
    {Event(1, n, ds, u) : n \in {ScholasticOpen, SpringOpen}, ds \in {<<>>, <<0>>},
                          u \in BOOLEAN}

PairRosters ==
    {Roster("fail", <<>>, <<>>)} \cup
    {Roster("ok", t, rows) :
        t \in {<<>>, EventsTitle, ScholasticOpen, SpringOpen},
        rows \in {<<>>, <<Participant(<<2>>, 0)>>}}

InitPair ==
    /\ today = 0
    /\ store \in ScriptStores
    /\ pc = "events"
    /\ events = <<1>>
    /\ idx = 1
    /\ reports = <<>>
    /\ exit_code = 0
    /\ config \in PairConfigs
    /\ io = NoIO
    /\ call = NoCall
    /\ files = NoFiles
    /\ savers = NoSavers

\* The same documents, save outcome, store, clock and configuration are given
\* to one turn of the script's loop (main, lines 882-964), whose effect is
\* taken on the state, and to BCFMonitor._process_event, whose inputs and
\* result are kept in `call`.
PairProcessEvent(listed, detail, roster, save) ==
    /\ pc = "events"
    /\ idx <= Len(events)
    /\ listed.event_id = events[idx]
    /\ LET r == detail_logged(script_process_event(listed, detail, roster, save, store,
                                                    today, config), listed, detail)
           p == detail_logged(process_event(listed, detail, roster, save, store,
                                             today, config), listed, detail)
       IN  /\ store' = r.store
           /\ io' = r.io
           /\ call' = [op |-> "pair", listed |-> listed, detail |-> detail,
                       roster |-> roster, save |-> save, package |-> p]
           /\ IF r.io.outcome \in Raises
              THEN /\ exit_code' = 1
                   /\ pc' = "idle"
                   /\ events' = <<>>
                   /\ idx' = 0
                   /\ reports' = <<>>
              ELSE /\ reports' = IF r.reported THEN Append(reports, r.report) ELSE reports
                   /\ idx' = idx + 1
                   /\ pc' = IF idx' > Len(events) THEN "notify" ELSE "events"
                   /\ UNCHANGED <<events, exit_code>>
    /\ UNCHANGED <<today, config, files, savers>>

NextPair ==
    \E listed \in PairEvents : \E detail \in EventDetails : \E roster \in PairRosters :
        \E save \in SaveOutcomes : PairProcessEvent(listed, detail, roster, save)

SpecPair == InitPair /\ [][NextPair]_vars

\* ------------------------------------------------------------------------
\* _save_snapshot step by step, with a crash at any step and a second process
\* ------------------------------------------------------------------------
\* the processes that save the snapshot of event 1, and the names of data_dir
\* they use: <id>.json and <id>.json.tmp
Savers == {1, 2}

SavePath == [id |-> 1, tmp |-> FALSE]

\* faulty variant of line 151: the snapshot is written in place
tmp_path_in_place(path) == path

\* line 151: tmp = path + ".tmp"
tmp_path(path) == [path EXCEPT !.tmp = TRUE]

FileNames == {SavePath, [SavePath EXCEPT !.tmp = TRUE]}

\* an inode per file created: the committed one and one per open that creates
Inodes == 1..(1 + Cardinality(Savers))

\* json.dump writes the text of the snapshot through the file object in
\* MaxChunks writes; a file holds the pieces written to it, and a piece never
\* written where a later one was (a hole) reads as zero bytes
serialise(data) == [k \in 1..MaxChunks |-> [data |-> data, part |-> k]]

Hole == [data |-> Absent, part |-> 0]

\* a write of `piece` at offset `off` of a file holding `content`
write_at(content, off, piece) ==
    IF off < Len(content)
    THEN [content EXCEPT ![off + 1] = piece]
    ELSE content \o [k \in 1..(off - Len(content)) |-> Hole] \o <<piece>>

\* json.load on the content of a file: the snapshot whose whole text it is,
\* and what does not parse as one snapshot otherwise
parse(content) ==
    IF content # <<>> /\ content = serialise(content[1].data)
    THEN content[1].data ELSE Corrupt

\* what a reader of `path` finds
read_path(fl, path) ==
    IF fl.names[path] = 0 THEN Absent ELSE parse(fl.inodes[fl.names[path]])

\* the snapshot in place before the saves, and the one saver p writes
Committed == Snapshot(SpringOpen, <<1>>, <<Participant(<<3>>, 0)>>)

SaveData(p) == Snapshot(SpringOpen, <<1>>, <<Participant(<<p>>, 0)>>)

Finished(p) == savers.proc[p].pc \in {"done", "failed", "crashed"}

\* the path holds the committed snapshot or none yet; the savers run one
\* after the other (two runs in sequence, the second also after a crash of
\* the first) or at the same time
InitSave ==
    /\ today = 0
    /\ pc = "idle"
    /\ events = <<>>
    /\ idx = 0
    /\ reports = <<>>
    /\ exit_code = 0
    /\ config \in RunConfigs
    /\ io = NoIO
    /\ call = NoCall
    /\ \E old \in {Absent, Committed} : \E mode \in {"sequential", "concurrent"} :
          /\ files = [names |-> [n \in FileNames |->
                                    IF n = SavePath /\ old # Absent THEN 1 ELSE 0],
                      inodes |-> [i \in Inodes |->
                                    IF i = 1 /\ old # Absent THEN serialise(old) ELSE <<>>]]
          /\ store = [id \in EventIds |-> IF id = 1 THEN old ELSE Absent]
          /\ savers = [mode |-> mode, committed |-> old, last |-> 0,
                       proc |-> [p \in Savers |-> [pc |-> "open", fd |-> 0, off |-> 0]]]

\* the store is what a reader finds at the path
Saved(fl) == store' = [store EXCEPT ![SavePath.id] = read_path(fl, SavePath)]

\* line 154, open(tmp, "w"): an existing file is truncated, else one is created
Open(p) ==
    /\ savers.proc[p].pc = "open"
    /\ savers.mode = "sequential" => \A q \in Savers : q < p => Finished(q)
    /\ LET tmp == tmp_path(SavePath)
           fresh == CHOOSE i \in Inodes :
                        /\ \A n \in FileNames : files.names[n] # i
                        /\ \A q \in Savers : savers.proc[q].fd # i
           inode == IF files.names[tmp] # 0 THEN files.names[tmp] ELSE fresh
       IN  /\ files' = [names |-> [files.names EXCEPT ![tmp] = inode],
                        inodes |-> [files.inodes EXCEPT ![inode] = <<>>]]
           /\ savers' = [savers EXCEPT !.proc[p] = [pc |-> "write", fd |-> inode, off |-> 0]]
    /\ Saved(files')
    /\ UNCHANGED <<today, pc, events, idx, reports, exit_code, config, io, call>>

\* line 155: one write of json.dump reaches the file; after the last one the
\* with block closes it
Write(p) ==
    /\ savers.proc[p].pc = "write"
    /\ LET me == savers.proc[p]
           piece == serialise(SaveData(p))[me.off + 1]
       IN  /\ files' = [files EXCEPT !.inodes[me.fd] = write_at(@, me.off, piece)]
           /\ savers' = [savers EXCEPT
                            !.proc[p].off = me.off + 1,
                            !.proc[p].pc = IF me.off + 1 = MaxChunks THEN "replace" ELSE "write"]
    /\ Saved(files')
    /\ UNCHANGED <<today, pc, events, idx, reports, exit_code, config, io, call>>

\* line 156, os.replace(tmp, path); lines 157-158 when tmp is gone: the
\* FileNotFoundError is printed
Replace(p) ==
    /\ savers.proc[p].pc = "replace"
    /\ LET tmp == tmp_path(SavePath)
       IN  IF files.names[tmp] = 0
           THEN /\ savers' = [savers EXCEPT !.proc[p].pc = "failed"]
                /\ UNCHANGED files
           ELSE /\ files' = [files EXCEPT
                               !.names = [n \in FileNames |->
                                            IF n = SavePath THEN files.names[tmp]
                                            ELSE IF n = tmp THEN 0
                                            ELSE files.names[n]]]
                /\ savers' = [savers EXCEPT !.proc[p].pc = "done", !.last = p]
    /\ Saved(files')
    /\ UNCHANGED <<today, pc, events, idx, reports, exit_code, config, io, call>>

\* the process dies inside _save_snapshot; what it wrote stays as it is
Crash(p) ==
    /\ savers.proc[p].pc \in {"write", "replace"}
    /\ savers' = [savers EXCEPT !.proc[p].pc = "crashed"]
    /\ UNCHANGED <<today, store, pc, events, idx, reports, exit_code, config, io, call,
                   files>>

NextSave == \E p \in Savers : Open(p) \/ Write(p) \/ Replace(p) \/ Crash(p)

SpecSave == InitSave /\ [][NextSave]_vars

\* ------------------------------------------------------------------------
\* The date parsers called on their own
\* ------------------------------------------------------------------------
NoDateCall == [op |-> "text", text |-> <<>>, date |-> NoDate, dates |-> DateList(<<>>)]

InitDate ==
    /\ today = 0
    /\ store = [id \in EventIds |-> Absent]
    /\ pc = "idle"
    /\ events = <<>>
    /\ idx = 0
    /\ reports = <<>>
    /\ exit_code = 0
    /\ config \in RunConfigs
    /\ io = NoIO
    /\ call \in {[NoDateCall EXCEPT !.text = t] : t \in DateTexts}
    /\ files = NoFiles
    /\ savers = NoSavers

\* DateParser.parse_date(text)
CallParseDate ==
    /\ call.op = "text"
    /\ call' = [call EXCEPT !.op = "parse_date", !.date = parse_date(call.text)]
    /\ UNCHANGED <<today, store, pc, events, idx, reports, exit_code, config, io, files, savers>>

\* DateParser.parse_multiple_dates(text)
CallParseMultipleDates ==
    /\ call.op = "text"
    /\ call' = [call EXCEPT !.op = "parse_multiple_dates",
                            !.dates = parse_multiple_dates(call.text)]
    /\ UNCHANGED <<today, store, pc, events, idx, reports, exit_code, config, io, files, savers>>

NextDate == CallParseDate \/ CallParseMultipleDates

SpecDate == InitDate /\ [][NextDate]_vars

\* ------------------------------------------------------------------------
\* One event block of the listing: extract_event_from_block
\* ------------------------------------------------------------------------
\* A block is the sequence of its links in document order.  A link is
\* "/events/n", "/tournament/register/n", "/tournament/entries/n", or an href
\* none of the patterns matches.
Link(shape, n) == [shape |-> shape, n |-> n]

Links == {Link(sh, n) : sh \in {"events", "register", "entries"}, n \in EventIds}
         \cup {Link("other", 0)}

\* lines 287-289: one of the three id patterns matches the href
HasId(link) == link.shape \in {"events", "register", "entries"}

\* line 292: re.match(r"^/tournament/entries/\d+$", href)
IsEntryLink(link) == link.shape = "entries"

NoEvent == [emitted |-> FALSE, event_id |-> 0, entry_list_url |-> 0]

\* lines 283-317: event_id is the number of the first link an id pattern
\* matches, entry_link_tag the first entries link; entry_list_url is that
\* link's (here its number), or built from event_id when there is none
extract_event_from_block(block) ==
    LET with_id == {i \in 1..Len(block) : HasId(block[i])}
        entry == {i \in 1..Len(block) : IsEntryLink(block[i])}
        event_id == block[Least(with_id)].n
        entry_list_url == IF entry # {} THEN block[Least(entry)].n ELSE event_id
    IN  IF with_id = {} THEN NoEvent
        ELSE [emitted |-> TRUE, event_id |-> event_id, entry_list_url |-> entry_list_url]

NoBlockCall == [op |-> "block", block |-> <<>>, event |-> NoEvent]

InitBlock ==
    /\ today = 0
    /\ store = [id \in EventIds |-> Absent]
    /\ pc = "idle"
    /\ events = <<>>
    /\ idx = 0
    /\ reports = <<>>
    /\ exit_code = 0
    /\ config \in RunConfigs
    /\ io = NoIO
    /\ call \in {[NoBlockCall EXCEPT !.block = b] : b \in SeqsUpTo(Links, MaxLinks)}
    /\ files = NoFiles
    /\ savers = NoSavers

\* extract_event_from_block(child) on one child of the events container
CallExtract ==
    /\ call.op = "block"
    /\ call' = [call EXCEPT !.op = "extract", !.event = extract_event_from_block(call.block)]
    /\ UNCHANGED <<today, store, pc, events, idx, reports, exit_code, config, io, files, savers>>

NextBlock == CallExtract

SpecBlock == InitBlock /\ [][NextBlock]_vars

\* ------------------------------------------------------------------------
\* Properties of the diff (under SpecDiff)
\* ------------------------------------------------------------------------
Diffed == call.op \in {"diff", "diff_raw"}

IsSortedByName(lst) ==
    \A i \in 1..Len(lst) : \A j \in 1..Len(lst) :
        i < j => ~StrLess(lst[j].name, lst[i].name)

NormalizedNames(lst) == {normalize_name(lst[i].name) : i \in 1..Len(lst)}

\* C2: added is exactly the current records whose name no prior record has,
\* removed exactly the prior records whose name no current record has, each
\* record as its own side holds it; an empty prior gives every current record
\* as added and nothing removed, an empty current every prior record as
\* removed and nothing added.
C2_DiffByName ==
    Diffed =>
        /\ call.added =
              SelectSeq(call.new_list,
                        LAMBDA p : \A i \in 1..Len(call.old_list) :
                                      call.old_list[i].name # p.name)
        /\ call.removed =
              SelectSeq(call.old_list,
                        LAMBDA p : \A i \in 1..Len(call.new_list) :
                                      call.new_list[i].name # p.name)
        /\ (call.old_list = <<>> => call.added = call.new_list /\ call.removed = <<>>)
        /\ (call.new_list = <<>> => call.removed = call.old_list /\ call.added = <<>>)

\* a diff with something added, something removed, and a name both sides hold
\* with different metadata
C2_Witness ==
    /\ Diffed
    /\ call.added # <<>>
    /\ call.removed # <<>>
    /\ \E i \in 1..Len(call.old_list) : \E j \in 1..Len(call.new_list) :
          /\ call.old_list[i].name = call.new_list[j].name
          /\ call.old_list[i] # call.new_list[j]

\* C3: diffing a roster against itself reports nothing added and nothing removed.
C3_SelfDiffEmpty ==
    (Diffed /\ call.old_list = call.new_list) =>
        (call.added = <<>> /\ call.removed = <<>>)

C3_Witness ==
    /\ Diffed
    /\ call.old_list = call.new_list
    /\ Len(call.old_list) >= 2
    /\ call.old_list[1].name # call.old_list[2].name

\* C4: both sequences the diff returns are sorted ascending by name.
C4_SortedByName ==
    call.op = "diff" => (IsSortedByName(call.added) /\ IsSortedByName(call.removed))

\* C5: records whose names differ only in whitespace are one participant to
\* the extractor and to the diff: two lists with the same normalized names
\* diff to nothing added and nothing removed.
C5_WhitespaceInsensitive ==
    (Diffed /\ NormalizedNames(call.old_list) = NormalizedNames(call.new_list)) =>
        (call.added = <<>> /\ call.removed = <<>>)

\* ------------------------------------------------------------------------
\* Properties of the run loop (under Spec)
\* ------------------------------------------------------------------------
\* the last _process_event call reconciled its event
Reconciled == io.kind = "event" /\ io.outcome = "reconciled"

LastReport == reports[Len(reports)]

Records(lst) == {lst[i] : i \in 1..Len(lst)}

\* C1: when a cycle reconciles an event whose snapshot an earlier cycle
\* stored with roster R1 and now observes roster R2, the snapshot it leaves
\* holds exactly R2, and its report has added = the records of R2 whose names
\* are not in R1 and removed = the records of R1 whose names are not in R2.
C1_OverwriteAndDiff ==
    (Reconciled /\ io.prior.kind = "snapshot") =>
        LET R1 == io.prior.participants
            R2 == io.participants
        IN  /\ reports # <<>>
            /\ store[io.event_id].kind = "snapshot"
            /\ store[io.event_id].participants = R2
            /\ Records(LastReport.added) = {p \in Records(R2) : p.name \notin names_of(R1)}
            /\ Records(LastReport.removed) = {p \in Records(R1) : p.name \notin names_of(R2)}
            /\ Len(LastReport.added) = Cardinality(Records(LastReport.added))
            /\ Len(LastReport.removed) = Cardinality(Records(LastReport.removed))

\* {A, B} then {B, C A}: stored {B, C A}, added [C A], removed [A]
C1_Witness ==
    /\ Reconciled
    /\ io.prior.participants = <<Participant(<<1>>, 0), Participant(<<2>>, 0)>>
    /\ io.participants = <<Participant(<<2>>, 0), Participant(<<3, 0, 1>>, 0)>>
    /\ store[io.event_id].participants = io.participants
    /\ LastReport.added = <<Participant(<<3, 0, 1>>, 0)>>
    /\ LastReport.removed = <<Participant(<<1>>, 0)>>

\* C6: a cycle that observes the same set of participants as the stored
\* roster, in whatever order, reports nothing added and nothing removed and
\* leaves the stored roster's membership as it was.
C6_IdempotentAnyOrder ==
    (/\ Reconciled
     /\ io.prior.kind = "snapshot"
     /\ names_of(io.prior.participants) = names_of(io.participants)) =>
        /\ reports # <<>>
        /\ LastReport.added = <<>>
        /\ LastReport.removed = <<>>
        /\ names_of(store[io.event_id].participants) = names_of(io.prior.participants)

\* the same two participants, listed in the other order, a day later
C6_Witness ==
    /\ Reconciled
    /\ today = 1
    /\ store[io.event_id].event_dates # io.prior.event_dates
    /\ io.prior.participants = <<Participant(<<1>>, 0), Participant(<<2>>, 0)>>
    /\ io.participants = <<Participant(<<2>>, 0), Participant(<<1>>, 0)>>

\* C10: after a sweep no snapshot is left whose dates are empty or all before
\* the day of the sweep.
C10_SweepRemovesExpired ==
    io.kind = "sweep" =>
        \A id \in EventIds :
            store[id].kind = "snapshot" =>
                /\ store[id].event_dates # <<>>
                /\ \E i \in 1..Len(store[id].event_dates) :
                      store[id].event_dates[i] >= io.now

\* one sweep removed the undated snapshot of event 2 and the snapshot of event
\* 1, whose date had passed
C10_Witness ==
    /\ io.kind = "sweep"
    /\ io.swept = EventIds

\* some date of the snapshot is on or after the day `now`
HasDateFrom(snap, now) ==
    \E i \in 1..Len(snap.event_dates) : snap.event_dates[i] >= now

\* C11: no step, and so no sweep, removes a snapshot that has a date on or
\* after the day of the step.
C11_SweepKeepsCurrent ==
    [][\A id \in EventIds :
          (store[id].kind = "snapshot" /\ HasDateFrom(store[id], today)) =>
              store'[id].kind = "snapshot"]_vars

\* a sweep that removed a snapshot and kept another, whose only date is the
\* day of the sweep
C11_Witness ==
    /\ io.kind = "sweep"
    /\ io.swept # {}
    /\ \E id \in EventIds :
          /\ store[id].kind = "snapshot"
          /\ store[id].event_dates = <<io.now>>

\* ------------------------------------------------------------------------
\* Properties of the run loop under failures (under SpecFaults)
\* ------------------------------------------------------------------------
\* the run ended because the listing fetch, or the parse of the listing, raised
ListingFailed == io.kind = "listing" /\ io.outcome \in {"fetch_failed", "parse_raised"}

\* the run ended because the processing of an event raised
EventRaised == io.kind = "event" /\ io.outcome \in Raises

\* C12 as stated: every cycle ends with the sweep, whatever happened in it.
C12_SweepEveryCycle ==
    pc = "idle" => io.kind \in {"none", "sweep"}

\* C12 as amended: a cycle that is not cut short by an exception ends with
\* the sweep over every stored snapshot (also with no events discovered, no
\* reports, or a failed notification); a cycle whose listing fetch or listing
\* parse raises, or in which the processing of an event raises, ends without
\* a sweep.
C12_SweepEveryCompletedCycle ==
    /\ pc = "idle" => (io.kind \in {"none", "sweep"} \/ ListingFailed \/ EventRaised)
    /\ (ListingFailed \/ EventRaised) => (pc = "idle" /\ exit_code = 1)
    /\ io.kind = "sweep" =>
          /\ pc = "idle"
          /\ \A id \in EventIds :
                store[id].kind = "snapshot" => HasDateFrom(store[id], io.now)

\* a sweep that removed a snapshot in a cycle whose notification failed
C12_Witness ==
    /\ io.kind = "sweep"
    /\ io.outcome = "failed"
    /\ io.swept # {}

\* The step of the loop over events is the one taken with pc = "events" that
\* leaves the clock alone.  After it the loop goes on with the next event of
\* the listing, or to the notification after the last one, and the exit
\* status stays 0:
LoopGoesOn ==
    /\ events' = events
    /\ idx' = idx + 1
    /\ pc' = IF idx' > Len(events) THEN "notify" ELSE "events"
    /\ exit_code' = 0

C14_OnlyListingFailureIsFatal ==
    [][/\ (pc = "idle" /\ io'.kind = "listing" /\ io'.outcome = "fetch_failed") =>
             /\ exit_code' # 0
             /\ pc' = "idle"
             /\ store' = store
             /\ events' = <<>>
             /\ reports' = <<>>
       /\ (pc = "events" /\ today' = today) =>
             /\ io'.outcome = "fetch_failed" => exit_code' = 0
             /\ exit_code' # 0 => io'.outcome = "save_raised"
       /\ (pc \in {"notify", "cleanup"}) => exit_code' = 0]_vars

\* after a listing fetch that raised: exit status 1, and an expired snapshot
\* still in the store
C14_Witness ==
    /\ ListingFailed
    /\ exit_code = 1
    /\ pc = "idle"
    /\ \E id \in EventIds :
          store[id].kind = "snapshot" /\ ~HasDateFrom(store[id], today)

\* ------------------------------------------------------------------------
\* Properties of one _process_event call (under SpecEvent)
\* ------------------------------------------------------------------------
\* the include/exclude rule on the keywords as configured
Excluded(name) ==
    \E i \in 1..Len(config.exclude_keywords) :
        Contains(Lower(name), config.exclude_keywords[i])

Included(name) ==
    \E i \in 1..Len(config.include_keywords) :
        Contains(Lower(name), config.include_keywords[i])

Passes(name) ==
    /\ (config.include_keywords # <<>> => Included(name))
    /\ ~Excluded(name)

\* some date d with now <= d <= now + N
InWindow(dates, now) ==
    \E i \in 1..Len(dates) : now <= dates[i] /\ dates[i] <= now + config.days_before

\* C7: an event is reconciled (snapshot loaded or written, report produced)
\* only if its final name passes the include/exclude filters and one of its
\* dates d has today <= d <= today + N.
C7_ReconciledOnlyIfAdmitted ==
    (/\ io.kind = "event"
     /\ \/ io.outcome = "reconciled"
        \/ reports # <<>>
        \/ io.prior.kind = "snapshot"
        \/ store \notin EventStores) =>
        (Passes(io.name) /\ InWindow(io.dates, io.now))

\* reconciled under a non-empty include list, by a date on the last day of the
\* window, the other date being past
C7_Witness ==
    /\ Reconciled
    /\ config.include_keywords # <<>>
    /\ config.days_before = 1
    /\ Len(io.dates) = 2
    /\ io.dates[1] < io.now
    /\ io.dates[2] = io.now + config.days_before

\* C8 as stated: the roster document of an event whose name matches the
\* exclude list is never fetched.
C8_ExcludedNeverFetched ==
    (io.kind = "event" /\ Excluded(io.listing_name) /\ Excluded(io.name)) =>
        ~io.roster_requested

\* C8 as amended: an event whose final name matches the exclude list is never
\* reconciled, whatever its dates: the call leaves the store and the reports
\* as they were.
C8_ExcludedNeverReconciled ==
    [][(io'.kind = "event" /\ Excluded(io'.name)) =>
          (store' = store /\ reports' = reports /\ io'.outcome # "reconciled")]_vars

\* an excluded event in the window with a roster, its name also hit by the
\* include list, its roster document fetched
C8_Witness ==
    /\ io.kind = "event"
    /\ Excluded(io.name)
    /\ Included(io.name)
    /\ InWindow(io.dates, io.now)
    /\ io.participants # <<>>
    /\ io.roster_requested
    /\ store \in EventStores
    /\ reports = <<>>

\* C9: the list of reports the run hands on holds a report for every admitted
\* event, also one whose roster has no participants.
C9_ReportPerAdmitted ==
    (/\ pc = "notify"
     /\ io.kind = "event"
     /\ io.outcome # "fetch_failed"
     /\ Passes(io.name)
     /\ InWindow(io.dates, io.now)) =>
        /\ Len(reports) = 1
        /\ reports[1].entry_url = io.event_id
        /\ reports[1].count = Len(io.participants)

\* ------------------------------------------------------------------------
\* Properties of the snapshot files
\* ------------------------------------------------------------------------
\* C15: when the file of the event is missing or does not parse, a call that
\* gets as far as loading it does not raise: it reconciles the event against
\* an empty prior roster, reports every current participant as added and
\* nobody as removed, and the loop goes on.
C15_CorruptLoadsAsAbsent ==
    [][(/\ pc = "events"
        /\ today' = today
        /\ store[events[idx]].kind \in {"absent", "corrupt"}
        /\ io'.outcome \in {"reconciled", "save_failed", "load_raised"}) =>
          /\ io'.outcome # "load_raised"
          /\ io'.prior = Absent
          /\ reports' # <<>>
          /\ reports'[Len(reports')].added = io'.participants
          /\ reports'[Len(reports')].removed = <<>>
          /\ LoopGoesOn]_vars

\* C16: a save that fails, in whichever of its steps, does not end the run:
\* the exit status stays 0 and the loop goes on.
C16_SaveFailureNeverAborts ==
    (io.kind = "event" /\ io.outcome \in {"save_failed", "save_raised"}) =>
        (exit_code = 0 /\ pc \in {"events", "notify"})

\* the snapshots one of which a reader must find whole at the path: the
\* committed one (or none before the first save) and the ones being saved
WholeSnapshots == {savers.committed} \cup {SaveData(p) : p \in Savers}

\* C17: with one process in _save_snapshot at a time, whatever step it dies
\* at, the path holds the whole previously saved snapshot (that of the last
\* save that got to replace the file, or the committed one) or the whole new
\* one, never a part of one.
C17_CrashLeavesWholeSnapshot ==
    savers.mode = "sequential" =>
        /\ store[SavePath.id] \in WholeSnapshots
        /\ store[SavePath.id] =
              IF savers.last = 0 THEN savers.committed ELSE SaveData(savers.last)
        /\ read_path(files, SavePath) = store[SavePath.id]

\* the first save died with one piece of its temporary file written, the
\* committed snapshot still at the path; the second save then replaced it
C17_Witness ==
    /\ savers.mode = "sequential"
    /\ savers.committed = Committed
    /\ savers.proc[1].pc = "crashed"
    /\ savers.proc[1].off = 1
    /\ savers.proc[2].pc = "done"
    /\ store[SavePath.id] = SaveData(2)

\* C18: in every interleaving of two saves of the same event id a reader of
\* the path finds a whole snapshot, and the last writer's once both are done.
C18_NoPartialRead ==
    /\ store[SavePath.id] \in WholeSnapshots
    /\ (\A p \in Savers : savers.proc[p].pc \in {"done", "failed"}) =>
          store[SavePath.id] = SaveData(savers.last)

\* ------------------------------------------------------------------------
\* Properties of the date parsers
\* ------------------------------------------------------------------------
\* C19: for every text parse_date returns None or a valid calendar date and
\* never raises, also on a text matching YYYY[-/]M[-/]D whose month or day
\* is out of range.
C19_ParseDateNeverRaises ==
    call.op = "parse_date" =>
        \/ call.date = NoDate
        \/ /\ call.date.kind = "date"
           /\ ValidDate(call.date.y, call.date.m, call.date.d)

\* C20: for "Monday, <Month> d1 - Friday, <Month> d2, <year>" with d1 <= d2
\* parse_multiple_dates returns every day from d1 to d2 of that month and
\* year, ascending.
C20_WeekdayRangeGivesEveryDay ==
    \A d1 \in RangeDays, d2 \in RangeDays, y \in TextYears :
        (/\ call.op = "parse_multiple_dates"
         /\ call.text = WeekdayRangeText(d1, d2, y)
         /\ d1 <= d2) =>
            call.dates = DateList([k \in 1..(d2 - d1 + 1) |-> Date(y, 6, d1 + k - 1)])

\* ------------------------------------------------------------------------
\* Properties of the package and the script on the same event (under SpecPair)
\* ------------------------------------------------------------------------
\* a name a page gave that is not one of the generic section titles
Usable(name) == name # <<>> /\ Lower(name) \notin GenericTitles

\* the best available name: the roster page title, else the name of the
\* detail page (when the event has a detail link and its fetch succeeded),
\* else the listing's
BestName(listed, detail, roster) ==
    IF Usable(roster.title) THEN roster.title
    ELSE IF listed.event_detail_url /\ detail.status = "ok" /\ Usable(detail.event_name)
    THEN detail.event_name
    ELSE listed.name

\* C21: once the roster page is fetched, _process_event evaluates the
\* include/exclude filters on the best available name (roster title, else
\* detail name, else listing name), and labels the snapshot and the report
\* with it.
C21_BestNameIsFilteredAndStored ==
    (call.op = "pair" /\ call.roster.status = "ok") =>
        LET best == BestName(call.listed, call.detail, call.roster)
            p == call.package
        IN  /\ p.io.name = best
            /\ p.io.outcome = "filtered" <=> ~Passes(best)
            /\ p.reported => p.report.name = best
            /\ p.io.outcome = "reconciled" => p.store[p.io.event_id].event_name = best

\* the listing's name passes the exclude filter, the detail page's does not,
\* the roster page has a generic title: filtered out; and a roster title that
\* passes where the detail page's name does not: reconciled under the title
C21_WitnessDetail ==
    /\ call.op = "pair"
    /\ call.listed.name = SpringOpen
    /\ call.listed.event_detail_url
    /\ call.detail.event_name = ScholasticOpen
    /\ call.roster.status = "ok"
    /\ call.roster.title = EventsTitle
    /\ config.exclude_keywords # <<>>
    /\ call.package.io.outcome = "filtered"

\* ------------------------------------------------------------------------
\* Properties of one turn of the script's loop (under SpecScript)
\* ------------------------------------------------------------------------
\* the event of the log entry e was skipped, or its roster page gave no
\* participants
Skipped(e) ==
    \/ e.outcome \in {"filtered", "window", "fetch_failed", "empty"}
    \/ e.roster_requested /\ e.outcome # "fetch_failed" /\ e.participants = <<>>

\* C22: the processing of an event that is rejected by the filters, outside
\* the window, whose roster fetch raised or whose roster came out empty
\* leaves the stored snapshots as they were and reports nobody as removed.
C22_SkipLeavesSnapshot ==
    [][(pc = "events" /\ today' = today /\ io'.kind = "event" /\ Skipped(io')) =>
          /\ store' = store
          /\ \/ reports' = reports
             \/ reports' = <<>>
             \/ reports'[Len(reports')].removed = <<>>]_vars

\* ------------------------------------------------------------------------
\* Properties of the listing and the loop over its events (under Spec)
\* ------------------------------------------------------------------------
\* the ids of a listing's blocks without repetition, each at the place of its
\* first block
FirstOfEachId(blocks) ==
    LET firsts == SelectSeq([i \in 1..Len(blocks) |-> i],
                            LAMBDA i : \A j \in 1..(i - 1) : blocks[j] # blocks[i])
    IN  [k \in 1..Len(firsts) |-> blocks[firsts[k]]]

\* C23: the events of a listing have pairwise distinct ids, the first block
\* of an id being the one kept, and in a run each of them is processed once:
\* one turn of the loop loads and saves the snapshot of the event it is at,
\* which no earlier turn was at, and touches no other snapshot.
C23_EachIdReconciledOnce ==
    [][/\ (io'.kind = "listing" /\ io'.outcome = "fetched") =>
             /\ events' = FirstOfEachId(io'.blocks)
             /\ \A i, j \in 1..Len(events') : i # j => events'[i] # events'[j]
       /\ (pc = "events" /\ today' = today) =>
             /\ io'.kind = "event"
             /\ io'.event_id = events[idx]
             /\ \A j \in 1..(idx - 1) : events[j] # io'.event_id
             /\ \A id \in EventIds : id # io'.event_id => store'[id] = store[id]
             /\ idx' = idx + 1]_vars

\* a listing gave the events 1 and 2, and both have been reconciled, each in
\* its own turn, the second just now
C23_Witness ==
    /\ events = <<1, 2>>
    /\ idx = 3
    /\ io.kind = "event"
    /\ io.event_id = 2
    /\ io.outcome = "reconciled"
    /\ store[1].kind = "snapshot"
    /\ Len(reports) = 2

\* a listing whose two blocks are both of event 2 gave one event
C23_WitnessListing ==
    /\ io.kind = "listing"
    /\ io.blocks = <<2, 2>>
    /\ events = <<2>>

\* ------------------------------------------------------------------------
\* Properties of extract_event_from_block (under SpecBlock)
\* ------------------------------------------------------------------------
\* C24: a block with a link /tournament/entries/N gives an event whose roster
\* URL is that link and whose id is N, whatever other links with an id the
\* block has and wherever they stand; without such a link the id is that of
\* an /events/ or /tournament/register/ link and the roster URL is built
\* from it.
C24_EntriesLinkGivesIdAndUrl ==
    call.op = "extract" =>
        LET block == call.block
            entry == {i \in 1..Len(block) : block[i].shape = "entries"}
            first == CHOOSE i \in entry : \A j \in entry : i <= j
        IN  IF entry # {}
            THEN /\ call.event.emitted
                 /\ call.event.entry_list_url = block[first].n
                 /\ call.event.event_id = block[first].n
            ELSE call.event.emitted =>
                    /\ \E i \in 1..Len(block) :
                          /\ block[i].shape \in {"events", "register"}
                          /\ block[i].n = call.event.event_id
                    /\ call.event.entry_list_url = call.event.event_id

\* ------------------------------------------------------------------------
\* Properties of the rules of parse_multiple_dates (under SpecDate)
\* ------------------------------------------------------------------------
\* the month and the year a text names: its first word as a month, and the
\* first four digits found after that word
Named(c) ==
    LET words == {i \in 1..Len(c) : c[i].t = "word"}
        first_word == CHOOSE i \in words : \A j \in words : i <= j
        years == {i \in 1..Len(c) : i > first_word /\ c[i].t = "num" /\ c[i].w >= 4}
        year_tok == c[CHOOSE i \in years : \A j \in years : i <= j]
    IN  IF words = {} \/ years = {} \/ MonthNumber(c[first_word].s) = 0
        THEN [ok |-> FALSE, name |-> "", month |-> 0, year |-> 0]
        ELSE [ok |-> TRUE, name |-> c[first_word].s,
              month |-> MonthNumber(c[first_word].s),
              year |-> year_tok.v \div (10 ^ (year_tok.w - 4))]

\* the text c names a month and a year, holds a hyphen, and does not read as
\* a range: it has not exactly two halves, or one of them is not a date
RangeFails(c) ==
    /\ Named(c).ok
    /\ HasPun(c, "-")
    /\ range_rule(c, Named(c).name, Named(c).year).kind = "fall"

\* the "and" rule, else the comma rule, else the single date, on the text c
RemainingRules(c) ==
    LET days == listed_days(c, Named(c).year, Named(c).month)
    IN  IF (HasAnd(c) \/ HasPun(c, ",")) /\ days # DateList(<<>>) THEN days
        ELSE single_date(c)

\* C25: on a text with a month, a year and a hyphen that does not read as a
\* range, parse_multiple_dates gives what the remaining rules give on the
\* whole text: the "and" list, else the comma list, else the single date.
C25_FailedRangeFallsThrough ==
    (call.op = "parse_multiple_dates" /\ RangeFails(cleaned_text(call.text))) =>
        call.dates = RemainingRules(cleaned_text(call.text))

\* ------------------------------------------------------------------------
\* Properties of the roster extractor (under SpecRoster)
\* ------------------------------------------------------------------------
\* the rows with a name, each under its whitespace-normalized name, without
\* the rows whose normalized name an earlier row has
FirstOfEachName(rows) ==
    LET norm(i) == normalize_name(rows[i].name)
        kept == SelectSeq([i \in 1..Len(rows) |-> i],
                          LAMBDA i : /\ norm(i) # <<>>
                                     /\ \A j \in 1..(i - 1) : norm(j) # norm(i))
    IN  [k \in 1..Len(kept) |-> [rows[kept[k]] EXCEPT !.name = norm(kept[k])]]

C27_ParseFailureNeverFatal ==
    exit_code # 0 => io.outcome \in {"fetch_failed", "save_raised"}

\* ------------------------------------------------------------------------
\* Properties of reports and the snapshots behind them (under SpecFaults)
\* ------------------------------------------------------------------------
\* the event just processed was reported with somebody added or removed
ChangesReported ==
    /\ io.kind = "event"
    /\ io.outcome \in {"reconciled", "save_failed"}
    /\ reports # <<>>
    /\ LastReport.added # <<>> \/ LastReport.removed # <<>>

\* the snapshot stored for the event just processed holds the roster observed,
\* so that a run observing that roster again finds nothing added or removed
ObservedIsStored ==
    /\ store[io.event_id].kind = "snapshot"
    /\ store[io.event_id].participants = io.participants
    /\ diff_lists(load_snapshot(store, io.event_id).participants, io.participants)
          = [added |-> <<>>, removed |-> <<>>]

\* C28 as stated: whenever an event is reported with additions or removals,
\* the snapshot stored for it at the end of its processing holds the current
\* roster.
C28_ReportedChangesAreStored == ChangesReported => ObservedIsStored

\* C28 as amended: so it is when the save went through; when the write or the
\* replace failed (which is logged) the event is reported all the same and
\* the store still holds what was loaded, so the next run reports the same
\* changes again.
C28_ReportedChangesAreStoredIfSaved ==
    ChangesReported =>
        /\ io.outcome = "reconciled" => ObservedIsStored
        /\ io.outcome = "save_failed" =>
              /\ load_snapshot(store, io.event_id) = io.prior
              /\ diff_lists(load_snapshot(store, io.event_id).participants, io.participants)
                    = [added |-> LastReport.added, removed |-> LastReport.removed]

\* an event without a snapshot was reconciled with one participant, who is
\* reported as added and is in the stored snapshot
C28_Witness ==
    /\ ChangesReported
    /\ io.outcome = "reconciled"
    /\ io.prior = Absent
    /\ Len(LastReport.added) = 1
    /\ store[io.event_id].participants = LastReport.added

\* ------------------------------------------------------------------------
\* Properties of the sweep at the end of a run (under Spec)
\* ------------------------------------------------------------------------
\* the step is the sweep that ends a run with reports; every report of the
\* run stands for a snapshot the run has written
SweepAfterReports == pc = "cleanup" /\ pc' = "idle" /\ reports # <<>>

\* C29 as stated: the sweep of a run deletes none of the snapshots written in
\* that run, also when midnight passes between the admission and the sweep.
C29_SweepKeepsWritten ==
    [][SweepAfterReports =>
          \A k \in 1..Len(reports) : store'[reports[k].entry_url].kind = "snapshot"]_vars

\* C29 as amended: the sweep keeps a snapshot written in the run when one of
\* its dates is on or after the day of the sweep, and deletes it when
\* midnight has passed since its admission and all its dates are now past.
C29_SweepKeepsWrittenIfCurrent ==
    [][SweepAfterReports =>
          \A k \in 1..Len(reports) :
              LET id == reports[k].entry_url
              IN  /\ store[id].kind = "snapshot"
                  /\ store[id].event_dates = reports[k].dates
                  /\ IF HasDateFrom(store[id], today)
                     THEN store'[id] = store[id]
                     ELSE store'[id] = Absent]_vars

\* a run admitted and wrote an event dated day 0 and one dated day 1, and
\* stands before its sweep on day 1: midnight passed after the first was
\* admitted
C29_Witness ==
    /\ pc = "cleanup"
    /\ today = 1
    /\ Len(reports) = 2
    /\ reports[1].dates = <<0>>
    /\ reports[2].dates = <<1>>
    /\ store[reports[1].entry_url].event_dates = <<0>>
    /\ store[reports[2].entry_url].event_dates = <<1>>

\* ------------------------------------------------------------------------
\* The script's loop against the package's (under SpecPair)
\* ------------------------------------------------------------------------
\* C30: given the same store, documents and configuration, one turn of the
\* script's loop and one call of _process_event from run leave the same
\* store, add the same report or none, and both go on or both end the run
\* with a failure, also with an empty roster or a corrupt snapshot.
C30_ScriptEqualsPackage ==
    call.op = "pair" =>
        /\ store = call.package.store
        /\ reports = IF call.package.reported /\ call.package.io.outcome \notin Raises
                     THEN <<call.package.report>> ELSE <<>>
        /\ (exit_code # 0) <=> (call.package.io.outcome \in Raises)

====
